---------------------------- MODULE Spec2Model ----------------------------
(***************************************************************************)
(* Model of the 0DTE options ingestion pipeline: expiration selection and  *)
(* chain normalisation (utils.fetch_options_data), validation              *)
(* (utils.validate_options_data), the collection gate                      *)
(* (utils.is_collection_time), the batch write (db_operations.             *)
(* save_options_data) and the timer-triggered run (function_app).          *)
(***************************************************************************)
EXTENDS Integers, Sequences, FiniteSets, TLC

(***************************************************************************)
(* Bounds of the model.                                                    *)
(***************************************************************************)
\* calendar days are 0..MaxDay
MaxDay == 3
\* the provider lists at most MaxExp expiration dates
MaxExp == 2
\* a batch handed to the validator has at most MaxRows rows
MaxRows == 2
\* and at most MaxNulls missing cells
MaxNulls == 1
\* the options_data table holds at most MaxStore rows
MaxStore == 4
\* the clock of a run shows seconds 0..MaxSec
MaxSec == 1
\* a record set handed to a filter has at most MaxRecords records
MaxRecords == 5
\* a side of the option chain has at most MaxSide rows
MaxSide == 2

VARIABLES
    op,      \* the operation applied last, "none" before the first call
    args,    \* the inputs of that operation
    ret,     \* what the operation returned
    store,   \* the committed rows of table options_data, in insertion order
    clock    \* datetime.now()

vars == <<op, args, ret, store, clock>>

(***************************************************************************)
(* Values.                                                                 *)
(***************************************************************************)
\* An optional value (Optional[pd.DataFrame], the expiration chosen) is a
\* sequence of at most one element; Python's None is the empty one.
None == <<>>
\* A DataFrame cell holds a value v, written Cell(v), or is missing (NaN).
NaN == <<>>
Cell(v) == <<v>>

Days == 0..MaxDay

Range(s) == {s[i] : i \in 1..Len(s)}

\* date.strftime("%Y-%m-%d"): a fixed-width, zero-padded decimal string; the
\* day number is written as two digits.
strftime(d) == <<d \div 10, d % 10>>

\* datetime.strptime(exp, "%Y-%m-%d").date(): the day number of the string.
strptime(s) == 10 * s[1] + s[2]

\* A datetime value: calendar day, second of the day, sub-second part.
datetime(d, s, u) == [day |-> d, sec |-> s, usec |-> u]

\* format_timestamp: strftime("%Y-%m-%d %H:%M:%S") drops the sub-second part.
format_timestamp(dt) == <<strftime(dt.day), dt.sec>>

\* pd.to_datetime on a "%Y-%m-%d" string: that day at midnight.
to_datetime(s) == datetime(strptime(s), 0, 0)

(***************************************************************************)
(* DataFrames: a set of column names and a sequence of rows; a row maps    *)
(* every column to a cell.                                                 *)
(***************************************************************************)
DataFrame(cols, rows) == [columns |-> cols, rows |-> rows]

empty(df) == df.rows = <<>>

\* df[cols]: the projection of every row on the columns cols.
project(df, cols) ==
    DataFrame(cols, [i \in 1..Len(df.rows) |-> [c \in cols |-> df.rows[i][c]]])

\* df[col] = v: set (or add) a column to one value in every row.
assign(df, col, v) ==
    DataFrame(df.columns \cup {col},
              [i \in 1..Len(df.rows) |->
                 [c \in df.columns \cup {col} |->
                    IF c = col THEN Cell(v) ELSE df.rows[i][c]]])

\* df.rename(columns={old: new}): a column that is absent is left alone.
renamed(c, old, new) == IF c = old THEN new ELSE c

rename(df, old, new) ==
    IF old \notin df.columns THEN df
    ELSE LET cols == {renamed(c, old, new) : c \in df.columns}
         IN  DataFrame(cols,
                 [i \in 1..Len(df.rows) |->
                    [c \in cols |-> IF c = new THEN df.rows[i][old]
                                    ELSE df.rows[i][c]]])


(***************************************************************************)
(* Validator (utils.validate_options_data).                                *)
(***************************************************************************)
required_columns ==
    {"strike", "openInterest", "expiration_date", "type", "stock_price",
     "timestamp"}

critical_columns == {"strike", "openInterest", "type"}

\* df[critical_columns].isnull().any().any()
has_null(df, cols) ==
    \E i \in 1..Len(df.rows) : \E c \in cols : df.rows[i][c] = NaN

validate_options_data(df) ==
    IF ~(required_columns \subseteq df.columns) THEN FALSE
    ELSE IF has_null(df, critical_columns) THEN FALSE
    ELSE TRUE

(***************************************************************************)
(* Expiration selection (utils.fetch_options_data, "Ensure options exist"  *)
(* and "Determine the relevant expiration date").  options is the          *)
(* provider's list of "%Y-%m-%d" strings, today a calendar day.  The       *)
(* result carries the message logged and the date string chosen.           *)
(***************************************************************************)
\* [exp for exp in options if strptime(exp).date() > today]
future_expiries(options, today) ==
    SelectSeq(options, LAMBDA exp : strptime(exp) > today)

\* min(seq, key=strptime): the first element whose date is the least.
min_by_date(seq) ==
    seq[CHOOSE i \in 1..Len(seq) :
          /\ \A j \in 1..Len(seq) : strptime(seq[i]) <= strptime(seq[j])
          /\ \A j \in 1..(i - 1) : strptime(seq[j]) /= strptime(seq[i])]

\* select_expiration without the 0DTE branch: today is never preferred.
select_expiration_no_0dte(options, today) ==
    IF options = <<>>
    THEN [exp |-> None, log |-> "No options available"]
    ELSE IF future_expiries(options, today) = <<>>
    THEN [exp |-> None, log |-> "No future expiration dates found."]
    ELSE [exp |-> min_by_date(future_expiries(options, today)),
          log |-> "0DTE not available. Using nearest expiration"]

\* select_expiration taking the earliest listed date, past dates included.
select_expiration_any_date(options, today) ==
    IF options = <<>>
    THEN [exp |-> None, log |-> "No options available"]
    ELSE IF strftime(today) \in Range(options)
    THEN [exp |-> strftime(today), log |-> "Using 0DTE options"]
    ELSE [exp |-> min_by_date(options),
          log |-> "0DTE not available. Using nearest expiration"]

\* select_expiration without the "if not future_expiries" guard: min() of
\* an empty list raises and the fetch ends in its exception handler.
select_expiration_unguarded_min(options, today) ==
    IF options = <<>>
    THEN [exp |-> None, log |-> "No options available"]
    ELSE IF strftime(today) \in Range(options)
    THEN [exp |-> strftime(today), log |-> "Using 0DTE options"]
    ELSE IF future_expiries(options, today) = <<>>
    THEN [exp |-> None, log |-> "Error fetching options data"]
    ELSE [exp |-> min_by_date(future_expiries(options, today)),
          log |-> "0DTE not available. Using nearest expiration"]

\* select_expiration without the "if not ticker.options" guard.
select_expiration_no_empty_check(options, today) ==
    IF strftime(today) \in Range(options)
    THEN [exp |-> strftime(today), log |-> "Using 0DTE options"]
    ELSE IF future_expiries(options, today) = <<>>
    THEN [exp |-> None, log |-> "No future expiration dates found."]
    ELSE [exp |-> min_by_date(future_expiries(options, today)),
          log |-> "0DTE not available. Using nearest expiration"]

select_expiration(options, today) ==
    LET today_str == strftime(today)
    IN  IF options = <<>>
        THEN [exp |-> None, log |-> "No options available"]
        ELSE IF today_str \in Range(options)
        THEN [exp |-> today_str, log |-> "Using 0DTE options"]
        ELSE IF future_expiries(options, today) = <<>>
        THEN [exp |-> None, log |-> "No future expiration dates found."]
        ELSE [exp |-> min_by_date(future_expiries(options, today)),
              log |-> "0DTE not available. Using nearest expiration"]

(***************************************************************************)
(* Chain normalisation (utils.fetch_options_data, "Process calls",         *)
(* "Process puts", "Combine calls and puts").                              *)
(***************************************************************************)
source_columns == {"strike", "openInterest"}

\* One side of the chain: kept when it has rows and both source columns,
\* then cut to the two columns and tagged with expiration date and type.
process_side(side, exp, type) ==
    IF ~empty(side) /\ source_columns \subseteq side.columns
    THEN <<assign(assign(project(side, source_columns),
                         "expiration_date", exp), "type", type)>>
    ELSE <<>>

\* pd.concat(options_list, ignore_index=True) of frames with equal columns.
concat(frames) ==
    IF Len(frames) = 1 THEN frames[1]
    ELSE DataFrame(frames[1].columns \cup frames[2].columns,
                   frames[1].rows \o frames[2].rows)

\* the sides kept only when both are usable
options_list_all_or_nothing(calls, puts, exp) ==
    IF process_side(calls, exp, "call") = <<>>
           \/ process_side(puts, exp, "put") = <<>>
    THEN <<>>
    ELSE process_side(calls, exp, "call") \o process_side(puts, exp, "put")

\* the puts appended before the calls
options_list_puts_first(calls, puts, exp) ==
    process_side(puts, exp, "put") \o process_side(calls, exp, "call")

\* the calls side alone
options_list_calls_only(calls, puts, exp) ==
    process_side(calls, exp, "call")

\* options_list after both sides were processed: the kept sides, calls first
options_list(calls, puts, exp) ==
    process_side(calls, exp, "call") \o process_side(puts, exp, "put")

\* normalize stamping every row with its own instant
normalize_stamp_per_row(ticker_symbol, frames, close, now) ==
    LET combined == assign(concat(frames), "ticker", ticker_symbol)
        named == rename(rename(combined, "type", "option_type"),
                        "openInterest", "open_interest")
        stamped == assign(named, "timestamp", format_timestamp(now))
        dated == [stamped EXCEPT !.rows =
                    [i \in 1..Len(stamped.rows) |->
                       [stamped.rows[i] EXCEPT
                          !["expiration_date"] = Cell(to_datetime(@[1])),
                          !["timestamp"] =
                              Cell(format_timestamp(
                                  datetime(now.day, now.sec + i - 1, 0)))]]]
    IN  assign(dated, "stock_price", close)

\* the kept sides combined and given ticker, canonical column names,
\* timestamp, expiration date as a datetime, and stock price
normalize(ticker_symbol, frames, close, now) ==
    LET combined == assign(concat(frames), "ticker", ticker_symbol)
        named == rename(rename(combined, "type", "option_type"),
                        "openInterest", "open_interest")
        stamped == assign(named, "timestamp", format_timestamp(now))
        \* pd.to_datetime of the expiration_date column
        dated == [stamped EXCEPT !.rows =
                    [i \in 1..Len(stamped.rows) |->
                       [stamped.rows[i] EXCEPT
                          !["expiration_date"] = Cell(to_datetime(@[1]))]]]
    IN  assign(dated, "stock_price", close)

(***************************************************************************)
(* utils.fetch_options_data.  yf is what the market-data provider answers  *)
(* for the ticker: which call raises (if any), whether the price history   *)
(* has a closing price, the close, the expiration list and the chain.      *)
(* The result is the value returned, the last message logged and the       *)
(* expiration for which the chain was requested.                           *)
(***************************************************************************)
fetched(value, log, requested) ==
    [value |-> value, log |-> log, requested |-> requested]

\* the fetch handing out the normalised batch without validating it
fetch_options_data_unvalidated(ticker_symbol, yf, now) ==
    IF yf.fails = "history"
    THEN fetched(None, "Error fetching options data", None)
    ELSE IF ~yf.hist_ok
    THEN fetched(None, "No valid closing price data", None)
    ELSE IF yf.fails = "options"
    THEN fetched(None, "Error fetching options data", None)
    ELSE LET sel == select_expiration(yf.options, now.day)
    IN  IF sel.exp = None
        THEN fetched(None, sel.log, None)
        ELSE IF yf.fails = "option_chain"
        THEN fetched(None, "Error fetching options data", sel.exp)
        ELSE IF empty(yf.calls) /\ empty(yf.puts)
        THEN fetched(None, "Option chain is empty", sel.exp)
        ELSE LET frames == options_list(yf.calls, yf.puts, sel.exp)
        IN  IF frames = <<>>
            THEN fetched(None, "No valid options data found", sel.exp)
            ELSE fetched(<<normalize(ticker_symbol, frames, yf.close, now)>>,
                         "ok", sel.exp)

fetch_options_data(ticker_symbol, yf, now) ==
    IF yf.fails = "history"
    THEN fetched(None, "Error fetching options data", None)
    ELSE IF ~yf.hist_ok
    THEN fetched(None, "No valid closing price data", None)
    ELSE IF yf.fails = "options"
    THEN fetched(None, "Error fetching options data", None)
    ELSE LET sel == select_expiration(yf.options, now.day)
    IN  IF sel.exp = None
        THEN fetched(None, sel.log, None)
        ELSE IF yf.fails = "option_chain"
        THEN fetched(None, "Error fetching options data", sel.exp)
        ELSE IF empty(yf.calls) /\ empty(yf.puts)
        THEN fetched(None, "Option chain is empty", sel.exp)
        ELSE LET frames == options_list(yf.calls, yf.puts, sel.exp)
        IN  IF frames = <<>>
            THEN fetched(None, "No valid options data found", sel.exp)
            ELSE LET options_data == normalize(ticker_symbol, frames,
                                               yf.close, now)
                 IN  IF ~validate_options_data(options_data)
                     THEN fetched(None, "Data validation failed", sel.exp)
                     ELSE fetched(<<options_data>>, "ok", sel.exp)

(***************************************************************************)
(* The market-data provider's answers the model enumerates.                *)
(***************************************************************************)
\* the default of TICKERS in function_app.py
Tickers == <<"SPY", "QQQ">>

\* Lists of at most n distinct expiration date strings, in any order.
RECURSIVE ExpLists(_)
ExpLists(n) ==
    IF n = 0 THEN {<<>>}
    ELSE LET shorter == ExpLists(n - 1)
         IN  shorter \cup
             {Append(l, strftime(d)) :
                l \in {x \in shorter : Len(x) = n - 1},
                d \in Days}

ExpirationLists ==
    {l \in ExpLists(MaxExp) :
        \A i, j \in 1..Len(l) : i /= j => l[i] /= l[j]}

\* one raw chain row as the provider hands it out
raw_row(strike, oi) ==
    [c \in source_columns |-> IF c = "strike" THEN Cell(strike) ELSE oi]

one_row_side(strike, oi) ==
    DataFrame(source_columns, <<raw_row(strike, oi)>>)

empty_side == DataFrame({}, <<>>)

Answer(fails, hist_ok, options, calls, puts) ==
    [fails |-> fails, hist_ok |-> hist_ok, close |-> 110,
     options |-> options, calls |-> calls, puts |-> puts]

Failures == {"none", "history", "options", "option_chain"}

\* the answers used to exercise expiration selection: every expiration
\* list, with a usable chain or an empty one
SelectAnswers ==
    {Answer(f, h, l, c, c) :
        f \in Failures, h \in BOOLEAN, l \in ExpirationLists,
        c \in {one_row_side(100, Cell(10)), empty_side}}

(***************************************************************************)
(* Specification SpecSelect: fetch_options_data applied once to an answer  *)
(* of the provider, on some calendar day.                                  *)
(***************************************************************************)
InitSelect ==
    /\ store = <<>>
    /\ clock = datetime(0, 0, 0)
    /\ op = "none"
    /\ args \in [ticker_symbol : {Tickers[1]}, yf : SelectAnswers,
                 now : {datetime(d, 0, 0) : d \in Days}]
    /\ ret = None

FetchOptionsData ==
    /\ op = "none"
    /\ "yf" \in DOMAIN args
    /\ op' = "fetch_options_data"
    /\ ret' = fetch_options_data(args.ticker_symbol, args.yf, args.now)
    /\ UNCHANGED <<args, store, clock>>

NextSelect == FetchOptionsData

SpecSelect == InitSelect /\ [][NextSelect]_vars

\* the calendar dates of the expiration list handed to the last fetch
availableExpirations == {strptime(e) : e \in Range(args.yf.options)}

\* the last operation was a fetch that got as far as expiration selection
SelectionReached ==
    /\ op = "fetch_options_data"
    /\ args.yf.fails \notin {"history", "options"}
    /\ args.yf.hist_ok

\* C1: whenever the available expiration dates contain today, the
\* expiration selected (the one the chain is requested for) is today.
C1_TodayPreferred ==
    (SelectionReached /\ args.now.day \in availableExpirations)
        => /\ ret.requested /= None
           /\ strptime(ret.requested) = args.now.day

\* reached: today is listed together with an earlier and a later date
C1_Witness ==
    /\ SelectionReached
    /\ args.now.day \in availableExpirations
    /\ \E d \in availableExpirations : d /= args.now.day
    /\ strptime(ret.requested) = args.now.day

\* C2: when today is not listed but some later date is, the selected
\* expiration is the least of the dates after today, never a past date.
C2_NearestFuture ==
    (/\ SelectionReached
     /\ args.now.day \notin availableExpirations
     /\ \E d \in availableExpirations : d > args.now.day)
        => /\ ret.requested /= None
           /\ strptime(ret.requested) \in availableExpirations
           /\ strptime(ret.requested) > args.now.day
           /\ \A d \in availableExpirations :
                 d > args.now.day => strptime(ret.requested) <= d

\* reached: a past date and a future date are listed, the future one is taken
C2_Witness ==
    /\ SelectionReached
    /\ args.now.day \notin availableExpirations
    /\ \E d \in availableExpirations : d < args.now.day
    /\ ret.requested /= None
    /\ strptime(ret.requested) > args.now.day

\* C3: a non-empty list with neither today nor a later date fails with
\* "No future expiration dates found."; no chain is requested and nothing is
\* returned.
C3_NoFutureExpiration ==
    (/\ SelectionReached
     /\ availableExpirations /= {}
     /\ \A d \in availableExpirations : d < args.now.day)
        => /\ ret.log = "No future expiration dates found."
           /\ ret.requested = None
           /\ ret.value = None

\* reached: only past dates are listed and the fetch has returned
C3_Witness ==
    /\ SelectionReached
    /\ availableExpirations /= {}
    /\ \A d \in availableExpirations : d < args.now.day
    /\ ret.value = None

\* C4: an empty expiration list fails with "No options available", which is
\* not the message of a non-empty list without a usable date.
C4_NoExpirationsAvailable ==
    (SelectionReached /\ args.yf.options = <<>>)
        => /\ ret.log = "No options available"
           /\ ret.log /= "No future expiration dates found."
           /\ ret.requested = None
           /\ ret.value = None

\* reached: the provider lists no expiration and the fetch has returned
C4_Witness ==
    /\ SelectionReached
    /\ args.yf.options = <<>>
    /\ ret.log = "No options available"

(***************************************************************************)
(* Specification SpecValidate: validate_options_data applied once to a     *)
(* batch.  The batches carry any set of the column names the repository    *)
(* uses (as fetched from the provider, and as renamed for the database),   *)
(* up to MaxRows rows and up to MaxNulls missing cells.                    *)
(***************************************************************************)
\* the six required fields under the names of the database schema
canonical_columns ==
    {"strike", "open_interest", "expiration_date", "option_type",
     "stock_price", "timestamp"}

canonical_critical == {"strike", "open_interest", "option_type"}

ColumnNames == canonical_columns \cup required_columns

\* the value of a cell that is not missing
cell(c) ==
    CASE c = "strike" -> 100
      [] c \in {"open_interest", "openInterest"} -> 10
      [] c \in {"option_type", "type"} -> "call"
      [] c = "expiration_date" -> datetime(0, 0, 0)
      [] c = "stock_price" -> 110
      [] OTHER -> format_timestamp(datetime(0, 0, 0))

\* the batch of n rows over cols whose cells in nulls are missing
batch(cols, n, nulls) ==
    DataFrame(cols,
        [i \in 1..n |->
           [c \in cols |-> IF <<i, c>> \in nulls THEN NaN
                            ELSE Cell(cell(c))]])

\* the sets of at most k of the given cells
RECURSIVE NullSets(_, _)
NullSets(cells, k) ==
    IF k = 0 THEN {{}}
    ELSE LET fewer == NullSets(cells, k - 1)
         IN  fewer \cup {x \cup {c} : x \in fewer, c \in cells}

\* the batches of at most rows rows with at most k missing cells
Batches(rows, k) ==
    UNION {{batch(cols, n, nulls) :
               nulls \in NullSets((1..n) \X cols, k)} :
           cols \in SUBSET ColumnNames, n \in 0..rows}

InitValidate ==
    /\ store = <<>>
    /\ clock = datetime(0, 0, 0)
    /\ op = "none"
    /\ args \in [df : Batches(MaxRows, MaxNulls)]
    /\ ret = None

ValidateOptionsData ==
    /\ op = "none"
    /\ "df" \in DOMAIN args
    /\ op' = "validate_options_data"
    /\ ret' = validate_options_data(args.df)
    /\ UNCHANGED <<args, store, clock>>

NextValidate == ValidateOptionsData

SpecValidate == InitValidate /\ [][NextValidate]_vars

\* C6: validate returns false when one of strike, open_interest,
\* expiration_date, option_type, stock_price, timestamp is not a column of
\* the batch, and when strike, open_interest or option_type is missing in
\* some row.
C6_RejectsIncomplete ==
    (/\ op = "validate_options_data"
     /\ \/ ~(canonical_columns \subseteq args.df.columns)
        \/ has_null(args.df, canonical_critical \cap args.df.columns))
        => ret = FALSE

\* C7: validate returns true for every non-empty batch that has the six
\* required fields under their canonical names and no missing strike,
\* open_interest or option_type.
C7_AcceptsCanonical ==
    (/\ op = "validate_options_data"
     /\ ~empty(args.df)
     /\ canonical_columns \subseteq args.df.columns
     /\ ~has_null(args.df, canonical_critical))
        => ret = TRUE

\* C8: validate returns false for every batch without rows, whatever its
\* columns.
C8_RejectsEmpty ==
    (op = "validate_options_data" /\ empty(args.df)) => ret = FALSE

(***************************************************************************)
(* Collection gate (utils.is_collection_time, called by the timer          *)
(* function): open on weekdays within tolerance_minutes of the target      *)
(* time of day.  now is the exchange-local wall clock: weekday (Monday is  *)
(* 0, as datetime.weekday()), hour and minute.                             *)
(***************************************************************************)
\* the schedule "0 30 11 * * 1-5": 11:30 on weekdays
target_hour == 11
target_minute == 30
tolerance_minutes == 5

minute_of_day(h, m) == 60 * h + m

abs(x) == IF x < 0 THEN -x ELSE x

\* is_collection_time with a strict bound on the difference
is_collection_time_strict(now) ==
    /\ now.weekday < 5
    /\ abs(minute_of_day(now.hour, now.minute)
           - minute_of_day(target_hour, target_minute)) < tolerance_minutes

\* is_collection_time without the weekday test
is_collection_time_any_day(now) ==
    abs(minute_of_day(now.hour, now.minute)
        - minute_of_day(target_hour, target_minute)) <= tolerance_minutes

is_collection_time(now) ==
    /\ now.weekday < 5
    /\ abs(minute_of_day(now.hour, now.minute)
           - minute_of_day(target_hour, target_minute)) <= tolerance_minutes

(***************************************************************************)
(* Specification SpecGate: the gate evaluated once at any minute of the    *)
(* week.                                                                   *)
(***************************************************************************)
InitGate ==
    /\ store = <<>>
    /\ clock = datetime(0, 0, 0)
    /\ op = "none"
    /\ args \in [now : [weekday : 0..6, hour : 0..23, minute : 0..59]]
    /\ ret = None

IsCollectionTime ==
    /\ op = "none"
    /\ "now" \in DOMAIN args
    /\ op' = "is_collection_time"
    /\ ret' = is_collection_time(args.now)
    /\ UNCHANGED <<args, store, clock>>

NextGate == IsCollectionTime

SpecGate == InitGate /\ [][NextGate]_vars

\* C9: on Saturday (weekday 5) and Sunday (weekday 6) the gate is closed at
\* every time of day, the target time included.
C9_ClosedOnWeekend ==
    (op = "is_collection_time" /\ args.now.weekday \in {5, 6})
        => ret = FALSE

\* reached: the gate was asked on a Sunday at exactly 11:30
C9_Witness ==
    /\ op = "is_collection_time"
    /\ args.now = [weekday |-> 6, hour |-> 11, minute |-> 30]
    /\ ret = FALSE

\* C10: on a weekday the gate is open exactly from 11:25 to 11:35, both
\* ends included: 11:25, 11:34 and 11:35 are open, 11:24 and 11:36 closed.
C10_WindowInclusive ==
    (op = "is_collection_time" /\ args.now.weekday \in 0..4)
        => /\ ret = (\/ args.now.hour = 11 /\ args.now.minute \in 25..35)
           /\ (args.now.hour = 11 /\ args.now.minute \in {25, 34, 35})
                 => ret = TRUE
           /\ (args.now.hour = 11 /\ args.now.minute \in {24, 36})
                 => ret = FALSE

\* reached: the gate was open on a weekday at 11:35, the edge of the window
C10_Witness ==
    /\ op = "is_collection_time"
    /\ args.now.weekday \in 0..4
    /\ args.now.hour = 11 /\ args.now.minute = 35
    /\ ret = TRUE

(***************************************************************************)
(* Persister, write path (db_operations.save_options_data).  table is the  *)
(* committed content of options_data; fault names the driver call that     *)
(* raises during this write, if any.  The result is the table afterwards,  *)
(* the driver calls made in order, whether the write raised, and the       *)
(* message logged.                                                         *)
(***************************************************************************)
Faults == {"none", "connect", "cursor", "execute_values", "commit"}

\* the columns read from every row while the records are built
record_columns ==
    {"strike", "open_interest", "expiration_date", "option_type",
     "stock_price"}

\* the tuple built for one row of the batch
record(row, ticker, timestamp) ==
    [ticker |-> ticker, strike |-> row["strike"],
     open_interest |-> row["open_interest"],
     expiration_date |-> row["expiration_date"],
     option_type |-> row["option_type"],
     stock_price |-> row["stock_price"], timestamp |-> timestamp]

\* the same row identified by ticker, strike, expiration and type
same_option(a, b) ==
    /\ a.ticker = b.ticker
    /\ a.strike = b.strike
    /\ a.expiration_date = b.expiration_date
    /\ a.option_type = b.option_type

\* execute_values as an upsert: a record already in the table is skipped
execute_values_upsert(table, records) ==
    table \o SelectSeq(records,
                 LAMBDA r : \A i \in 1..Len(table) : ~same_option(table[i], r))

\* execute_values replacing the rows the table holds for the records' ticker
execute_values_replace(table, records) ==
    SelectSeq(table, LAMBDA r : \A i \in 1..Len(records) :
                                   r.ticker /= records[i].ticker)
        \o records

\* execute_values(cur, "INSERT INTO options_data ... VALUES %s", records)
execute_values(table, records) == table \o records

saved(table, calls, raised, log) ==
    [table |-> table, calls |-> calls, raised |-> raised, log |-> log]

\* the guard of the write path with the test for a batch without rows left out
no_data_none_only(data) == data = None

\* if data is None or data.empty
no_data(data) == data = None \/ empty(data[1])

\* the statement of the try block that raises: the injected fault, or the
\* building of the records when a column read from the rows is missing
failing_step(df, fault) ==
    IF fault \in {"connect", "cursor"} THEN fault
    ELSE IF ~(record_columns \subseteq df.columns) THEN "records"
    ELSE fault

\* the try block with the commit issued before the insert
try_block_commit_first(step) ==
    CASE step = "connect" -> <<"connect">>
      [] step \in {"cursor", "records"} -> <<"connect", "cursor">>
      [] step = "commit" -> <<"connect", "cursor", "commit">>
      [] OTHER -> <<"connect", "cursor", "commit", "execute_values">>

\* the calls of the try block up to and including the one that raises
try_block(step) ==
    CASE step = "connect" -> <<"connect">>
      [] step \in {"cursor", "records"} -> <<"connect", "cursor">>
      [] step = "execute_values" -> <<"connect", "cursor", "execute_values">>
      [] OTHER -> <<"connect", "cursor", "execute_values", "commit">>

\* the except block without the rollback
except_block_no_rollback(step) == <<>>

\* except Exception: if conn: conn.rollback(); raise
except_block(step) ==
    IF step \in {"none", "connect"} THEN <<>> ELSE <<"rollback">>

\* the closes done on the normal path only
finally_block_leak(step) ==
    IF step = "none" THEN <<"cur.close", "conn.close">> ELSE <<>>

\* finally: if cur: cur.close(); if conn: conn.close()
finally_block(step) ==
    (IF step \in {"connect", "cursor"} THEN <<>> ELSE <<"cur.close">>)
        \o (IF step = "connect" THEN <<>> ELSE <<"conn.close">>)

\* the transaction of one connection: rows inserted are pending until the
\* commit; a rollback or the close of the connection discards them.  A call
\* that raises has no effect, except that a bulk insert keeps pending the
\* records before the one it failed on.
effect(db, call, records, raises) ==
    CASE call = "execute_values" ->
            [db EXCEPT !.pending =
                IF raises THEN SubSeq(records, 1, Len(records) - 1)
                ELSE records]
      [] call = "commit" ->
            IF raises THEN db
            ELSE [table |-> execute_values(db.table, db.pending),
                  pending |-> <<>>]
      [] call \in {"rollback", "conn.close"} -> [db EXCEPT !.pending = <<>>]
      [] OTHER -> db

RECURSIVE run_calls(_, _, _, _)
run_calls(db, calls, records, step) ==
    IF calls = <<>> THEN db
    ELSE run_calls(effect(db, Head(calls), records, Head(calls) = step),
                   Tail(calls), records, step)

save_options_data(data, ticker, table, now, fault) ==
    IF no_data(data)
    THEN saved(table, <<>>, FALSE, "No data to save")
    ELSE LET step == failing_step(data[1], fault)
             records == IF step \in {"connect", "cursor", "records"} THEN <<>>
                        ELSE [i \in 1..Len(data[1].rows) |->
                                record(data[1].rows[i], ticker, now)]
             calls == try_block(step) \o except_block(step)
                         \o finally_block(step)
             db == run_calls([table |-> table, pending |-> <<>>], calls,
                             records, step)
         IN  saved(db.table, calls, step /= "none",
                   CASE step = "none" -> "Successfully saved"
                     [] step = "connect" -> "Error connecting to database"
                     [] OTHER -> "Error saving data")

\* SELECT COUNT(*) FROM options_data WHERE ticker = ...
row_count(table, ticker) ==
    Len(SelectSeq(table, LAMBDA r : r.ticker = ticker))

ReadFaults == {"none", "connect", "read_sql_query"}

\* WHERE ticker = %s
ticker_rows(table, ticker) == SelectSeq(table, LAMBDA r : r.ticker = ticker)

later(a, b) ==
    \/ a.day > b.day
    \/ a.day = b.day /\ a.sec > b.sec
    \/ a.day = b.day /\ a.sec = b.sec /\ a.usec > b.usec

\* ORDER BY timestamp DESC: every order of the rows in which no row comes
\* before a row of a later timestamp; rows of one timestamp come in any order
order_by_timestamp_desc(rows) ==
    {[i \in 1..Len(rows) |-> rows[p[i]]] :
        p \in {q \in Permutations(1..Len(rows)) :
                 \A i, j \in 1..Len(rows) :
                    i < j => ~later(rows[q[j]].timestamp,
                                    rows[q[i]].timestamp)}}

\* LIMIT %s
limited(rows, limit) ==
    SubSeq(rows, 1, IF limit < Len(rows) THEN limit ELSE Len(rows))

\* the read without the LIMIT clause applied
get_latest_options_data_unlimited(ticker, limit, table, fault) ==
    IF fault = "connect"
    THEN {saved(None, <<"connect">>, TRUE, "Error connecting to database")}
    ELSE IF fault = "read_sql_query"
    THEN {saved(None, <<"connect", "read_sql_query", "conn.close">>, TRUE,
                "Error retrieving data")}
    ELSE {saved(<<rows>>, <<"connect", "read_sql_query", "conn.close">>,
                FALSE, "ok") :
             rows \in order_by_timestamp_desc(ticker_rows(table, ticker))}

\* the outcomes of get_latest_options_data(ticker, limit): the rows returned
\* (in the field table), the calls made and whether it raised
get_latest_options_data(ticker, limit, table, fault) ==
    IF fault = "connect"
    THEN {saved(None, <<"connect">>, TRUE, "Error connecting to database")}
    ELSE IF fault = "read_sql_query"
    THEN {saved(None, <<"connect", "read_sql_query", "conn.close">>, TRUE,
                "Error retrieving data")}
    ELSE {saved(<<limited(rows, limit)>>,
                <<"connect", "read_sql_query", "conn.close">>, FALSE, "ok") :
             rows \in order_by_timestamp_desc(ticker_rows(table, ticker))}

(***************************************************************************)
(* Specification Spec: the store under a sequence of batch writes, with    *)
(* time passing between them.                                              *)
(***************************************************************************)
\* the columns of a normalised batch: the canonical ones and the ticker
frame_columns ==
    {"ticker", "strike", "open_interest", "expiration_date", "option_type",
     "stock_price", "timestamp"}

\* a normalised row as fetch_options_data builds it
option_row(ticker, strike, type) ==
    [c \in frame_columns |->
        Cell(CASE c = "ticker" -> ticker
               [] c = "strike" -> strike
               [] c = "option_type" -> type
               [] OTHER -> cell(c))]

\* the batches handed to the write path for a ticker: none, one without
\* rows, one under the provider's column names, and normalised batches of
\* one and two rows
SaveBatches(t) ==
    {None,
     <<DataFrame(frame_columns, <<>>)>>,
     <<batch(required_columns, 1, {})>>,
     <<DataFrame(frame_columns,
                 <<option_row(t, 100, "call")>>)>>,
     <<DataFrame(frame_columns,
                 <<option_row(t, 100, "call"), option_row(t, 105, "put")>>)>>}

Instants == {datetime(0, sec, 0) : sec \in 0..MaxSec}

Init ==
    /\ op = "none"
    /\ args = None
    /\ ret = None
    /\ store = <<>>
    /\ clock = datetime(0, 0, 0)

\* one call of save_options_data(data, ticker)
SaveOptionsData ==
    \E ticker \in Range(Tickers) :
    \E data \in SaveBatches(ticker) :
    \E fault \in IF no_data(data) THEN {"none", "connect"} ELSE Faults :
        LET result == save_options_data(data, ticker, store, clock, fault)
        IN  /\ Len(result.table) <= MaxStore
            /\ op' = "save_options_data"
            /\ args' = [data |-> data, ticker |-> ticker, fault |-> fault]
            /\ ret' = [raised |-> result.raised, calls |-> result.calls,
                       log |-> result.log,
                       count_before |-> row_count(store, ticker),
                       before |-> store]
            /\ store' = result.table
            /\ UNCHANGED clock

\* time passes.  Only the order of the instants of the writes is observed,
\* so the clock moves to the next instant once a row carries the present one.
Tick ==
    /\ \E i \in 1..Len(store) : store[i].timestamp = clock
    /\ \E t \in Instants :
          /\ later(t, clock)
          /\ \A u \in Instants : ~(later(t, u) /\ later(u, clock))
          /\ clock' = t
    /\ UNCHANGED <<op, args, ret, store>>

\* one call of get_latest_options_data(ticker, limit); 100 is the default
GetLatestOptionsData ==
    \E ticker \in Range(Tickers), fault \in ReadFaults :
    \E limit \in IF fault = "none" THEN {1, 100} ELSE {100} :
    \E result \in get_latest_options_data(ticker, limit, store, fault) :
        /\ op' = "get_latest_options_data"
        /\ args' = [ticker |-> ticker, limit |-> limit, fault |-> fault]
        /\ ret' = [raised |-> result.raised, calls |-> result.calls,
                   log |-> result.log, value |-> result.table]
        /\ UNCHANGED <<store, clock>>

\* ORDER BY timestamp, strike: the orders of the rows by ascending timestamp
\* and, within one timestamp, ascending strike
order_by_timestamp_strike(rows) ==
    {[i \in 1..Len(rows) |-> rows[p[i]]] :
        p \in {q \in Permutations(1..Len(rows)) :
                 \A i, j \in 1..Len(rows) :
                    i < j => /\ ~later(rows[q[i]].timestamp,
                                       rows[q[j]].timestamp)
                             /\ rows[q[i]].timestamp = rows[q[j]].timestamp
                                   => rows[q[i]].strike[1]
                                         <= rows[q[j]].strike[1]}}

\* the outcomes of get_options_data(ticker, date); date is None or a
\* "%Y-%m-%d" string compared with DATE(timestamp)
get_options_data(ticker, date, table, fault) ==
    IF fault /= "none"
    THEN {saved(None, <<"connect">>, TRUE, "Error retrieving data")}
    ELSE {saved(<<rows>>, <<"connect", "read_sql_query", "conn.close">>,
                FALSE, "ok") :
             rows \in order_by_timestamp_strike(
                         SelectSeq(ticker_rows(table, ticker),
                             LAMBDA r : date = None
                                           \/ strftime(r.timestamp.day)
                                                 = date))}

\* one call of get_options_data(ticker, date)
GetOptionsData ==
    \E ticker \in Range(Tickers), fault \in {"none", "connect"} :
    \E date \in IF fault = "none" THEN {None, strftime(0)} ELSE {None} :
    \E result \in get_options_data(ticker, date, store, fault) :
        /\ op' = "get_options_data"
        /\ args' = [ticker |-> ticker, date |-> date, fault |-> fault]
        /\ ret' = [raised |-> result.raised, calls |-> result.calls,
                   log |-> result.log, value |-> result.table]
        /\ UNCHANGED <<store, clock>>

Next == SaveOptionsData \/ GetLatestOptionsData \/ GetOptionsData \/ Tick

Spec == Init /\ [][Next]_vars

\* the last operation was a write of a non-empty batch that returned normally
Appended ==
    /\ op = "save_options_data"
    /\ args.data /= None
    /\ ~empty(args.data[1])
    /\ ~ret.raised

\* C5: when a non-empty batch is written to a store without rows of its
\* ticker and the same batch is then written again, both writes returning
\* normally, the ticker has exactly twice as many rows as the batch.
C5_AppendTwiceDoubles ==
    [][(/\ Appended
        /\ ret.count_before = 0
        /\ SaveOptionsData
        /\ args' = args
        /\ ~ret'.raised)
          => row_count(store', args.ticker) = 2 * Len(args.data[1].rows)]_vars

\* reached: the two-row batch was written twice and the ticker has four rows
C5_Witness ==
    /\ Appended
    /\ Len(args.data[1].rows) = 2
    /\ ret.count_before = 2
    /\ row_count(store, args.ticker) = 4
    /\ \A i \in 1..2 :
          /\ store[i].strike = store[i + 2].strike
          /\ store[i].option_type = store[i + 2].option_type

(***************************************************************************)
(* Filters over a record set (utils.get_atm_options and                    *)
(* utils.filter_options_by_strike_range).  A tolerance is a number of      *)
(* hundredths (0.05 is 5), so that the relative distance                   *)
(* |strike - stock_price| / stock_price <= tolerance is compared exactly.  *)
(***************************************************************************)
val(row, c) == row[c][1]

within_tolerance(row, tolerance) ==
    abs(val(row, "strike") - val(row, "stock_price")) * 100
        <= tolerance * val(row, "stock_price")

\* get_atm_options keeping only the strikes at or below the stock price
get_atm_options_below(df, tolerance) ==
    DataFrame(df.columns,
        SelectSeq(df.rows,
            LAMBDA r : /\ within_tolerance(r, tolerance)
                       /\ val(r, "strike") <= val(r, "stock_price")))

\* get_atm_options with a strict bound
get_atm_options_strict(df, tolerance) ==
    DataFrame(df.columns,
        SelectSeq(df.rows,
            LAMBDA r : abs(val(r, "strike") - val(r, "stock_price")) * 100
                           < tolerance * val(r, "stock_price")))

get_atm_options(df, tolerance) ==
    DataFrame(df.columns,
              SelectSeq(df.rows, LAMBDA r : within_tolerance(r, tolerance)))

\* filter_options_by_strike_range with the upper bound excluded
filter_options_by_strike_range_open(df, min_strike, max_strike) ==
    DataFrame(df.columns,
        SelectSeq(df.rows,
            LAMBDA r : /\ min_strike <= val(r, "strike")
                       /\ val(r, "strike") < max_strike))

filter_options_by_strike_range(df, min_strike, max_strike) ==
    DataFrame(df.columns,
        SelectSeq(df.rows,
            LAMBDA r : /\ min_strike <= val(r, "strike")
                       /\ val(r, "strike") <= max_strike))

(***************************************************************************)
(* Specifications SpecAtm and SpecStrikeRange: a filter applied once to a  *)
(* record set of distinct strikes, in any order.                           *)
(***************************************************************************)
StrikeValues == {95, 100, 105, 110, 115, 120}

\* sequences of at most n distinct strikes
RECURSIVE StrikeLists(_)
StrikeLists(n) ==
    IF n = 0 THEN {<<>>}
    ELSE LET shorter == StrikeLists(n - 1)
         IN  shorter \cup
             {Append(l, k) :
                <<l, k>> \in {x \in shorter \X StrikeValues :
                                 /\ Len(x[1]) = n - 1
                                 /\ x[2] \notin Range(x[1])}}

\* the record set of test_get_atm_options: strike, stock_price, openInterest
records(strikes, price) ==
    DataFrame({"strike", "stock_price", "openInterest"},
        [i \in 1..Len(strikes) |->
           [c \in {"strike", "stock_price", "openInterest"} |->
              Cell(CASE c = "strike" -> strikes[i]
                     [] c = "stock_price" -> price
                     [] OTHER -> 1000 * i)]])

RecordSets(n) ==
    {records(l, price) : l \in StrikeLists(n), price \in {100, 110}}

strikes_of(df) == [i \in 1..Len(df.rows) |-> val(df.rows[i], "strike")]

\* s is t with some elements left out, the others in the order of t
RECURSIVE IsSubsequence(_, _)
IsSubsequence(s, t) ==
    IF s = <<>> THEN TRUE
    ELSE IF t = <<>> THEN FALSE
    ELSE IF s[1] = t[1] THEN IsSubsequence(Tail(s), Tail(t))
    ELSE IsSubsequence(s, Tail(t))

InitAtm ==
    /\ store = <<>>
    /\ clock = datetime(0, 0, 0)
    /\ op = "none"
    /\ args \in [df : RecordSets(MaxRecords), tolerance : {5, 10}]
    /\ ret = None

GetAtmOptions ==
    /\ op = "none"
    /\ "tolerance" \in DOMAIN args
    /\ op' = "get_atm_options"
    /\ ret' = get_atm_options(args.df, args.tolerance)
    /\ UNCHANGED <<args, store, clock>>

NextAtm == GetAtmOptions

SpecAtm == InitAtm /\ [][NextAtm]_vars

\* the record set of the test: strikes 100..120 at stock price 110
TestRecords ==
    /\ op = "get_atm_options"
    /\ strikes_of(args.df) = <<100, 105, 110, 115, 120>>
    /\ val(args.df.rows[1], "stock_price") = 110

InitStrikeRange ==
    /\ store = <<>>
    /\ clock = datetime(0, 0, 0)
    /\ op = "none"
    /\ args \in [df : {records(l, 110) : l \in StrikeLists(MaxRecords)},
                 min_strike : {100, 105}, max_strike : {105, 115}]
    /\ ret = None

FilterOptionsByStrikeRange ==
    /\ op = "none"
    /\ "min_strike" \in DOMAIN args
    /\ op' = "filter_options_by_strike_range"
    /\ ret' = filter_options_by_strike_range(args.df, args.min_strike,
                                             args.max_strike)
    /\ UNCHANGED <<args, store, clock>>

NextStrikeRange == FilterOptionsByStrikeRange

SpecStrikeRange == InitStrikeRange /\ [][NextStrikeRange]_vars

\* C13: the result is the subsequence of the input records, in input order,
\* of exactly the records with low <= strike <= high; strikes 100, 105, 110,
\* 115, 120 with bounds 105 and 115 give 105, 110, 115.
C13_StrikeRangeInclusive ==
    op = "filter_options_by_strike_range"
        => /\ IsSubsequence(ret.rows, args.df.rows)
           /\ \A i \in 1..Len(args.df.rows) :
                 (args.df.rows[i] \in Range(ret.rows))
                    <=> (val(args.df.rows[i], "strike")
                            \in args.min_strike..args.max_strike)
           /\ (/\ strikes_of(args.df) = <<100, 105, 110, 115, 120>>
               /\ args.min_strike = 105 /\ args.max_strike = 115)
                 => strikes_of(ret) = <<105, 110, 115>>

\* reached: the test's records were filtered with the bounds 105 and 115
C13_Witness ==
    /\ op = "filter_options_by_strike_range"
    /\ strikes_of(args.df) = <<100, 105, 110, 115, 120>>
    /\ args.min_strike = 105 /\ args.max_strike = 115
    /\ strikes_of(ret) = <<105, 110, 115>>

(***************************************************************************)
(* The write and read paths of the store, checked under Spec.              *)
(***************************************************************************)
count(calls, c) == Len(SelectSeq(calls, LAMBDA x : x = c))

\* the batch of the last write has rows
HasRows(data) == data /= None /\ Len(data[1].rows) > 0

\* C14: a write of an absent batch or of a batch without rows returns
\* normally, leaves the store as it was, and makes no call at all: no
\* connection, no cursor, no insert, no commit.
C14_EmptyWriteIsNoOp ==
    (op = "save_options_data" /\ ~HasRows(args.data))
        => /\ ~ret.raised
           /\ ret.calls = <<>>
           /\ store = ret.before

\* reached: a batch without rows was written to a store holding rows while
\* the database could not be connected to, and the write returned normally
C14_Witness ==
    /\ op = "save_options_data"
    /\ args.data /= None
    /\ ~HasRows(args.data)
    /\ args.fault = "connect"
    /\ ~ret.raised
    /\ ret.calls = <<>>
    /\ store = ret.before
    /\ store /= <<>>

\* a step after the connection was acquired fails in the write of data
FailsInTransaction(data, fault) ==
    /\ HasRows(data)
    /\ \/ fault \in {"cursor", "execute_values", "commit"}
       \/ fault = "none" /\ ~(record_columns \subseteq data[1].columns)

\* C15: when a step of a write fails after the connection was acquired (the
\* cursor, the building of the rows, the bulk insert or the commit), the
\* transaction is rolled back, the store holds the rows it held before, and
\* the write raises.
C15_AllOrNothing ==
    (op = "save_options_data" /\ FailsInTransaction(args.data, args.fault))
        => /\ ret.raised
           /\ count(ret.calls, "rollback") = 1
           /\ store = ret.before

\* reached: the bulk insert of a two-row batch failed on its second row, the
\* write rolled back and raised, and the store holds the earlier rows only
C15_Witness ==
    /\ op = "save_options_data"
    /\ HasRows(args.data)
    /\ Len(args.data[1].rows) = 2
    /\ args.fault = "execute_values"
    /\ "rollback" \in Range(ret.calls)
    /\ ret.raised
    /\ store = ret.before
    /\ store /= <<>>

\* C16: a write or a read closes the connection it acquired exactly once, as
\* its last call, on the commit path and on the rollback path alike; a cursor
\* that was opened is closed exactly once, just before the connection; a
\* connection or cursor that was never obtained is not closed.
C16_ConnectionReleased ==
    op \in {"save_options_data", "get_latest_options_data"}
        => LET calls == ret.calls
               acquired == "connect" \in Range(calls) /\ args.fault /= "connect"
               opened == "cursor" \in Range(calls) /\ args.fault /= "cursor"
           IN  /\ count(calls, "conn.close") = IF acquired THEN 1 ELSE 0
               /\ acquired => calls[Len(calls)] = "conn.close"
               /\ count(calls, "cur.close") = IF opened THEN 1 ELSE 0
               /\ opened => calls[Len(calls) - 1] = "cur.close"

\* reached: a write whose commit raised closed its cursor and its connection
C16_Witness ==
    /\ op = "save_options_data"
    /\ args.fault = "commit"
    /\ ret.raised
    /\ "commit" \in Range(ret.calls)
    /\ SubSeq(ret.calls, Len(ret.calls) - 1, Len(ret.calls))
          = <<"cur.close", "conn.close">>

\* the calls of a write that returned normally
SuccessPath ==
    Appended
        => /\ ret.calls = <<"connect", "cursor", "execute_values", "commit",
                            "cur.close", "conn.close">>
           /\ Len(store) = Len(ret.before) + Len(args.data[1].rows)
           /\ SubSeq(store, 1, Len(ret.before)) = ret.before

\* C17 as stated: a write that returns normally opens one cursor, inserts all
\* rows in one bulk insert, commits once and closes the cursor and then the
\* connection, without a rollback; a write that raises never calls commit.
C17_AsStated ==
    /\ SuccessPath
    /\ (op = "save_options_data" /\ ret.raised)
          => "commit" \notin Range(ret.calls)

\* C17 as amended: the success path as stated; a write that raises has called
\* commit only when the commit itself is the call that raised, and then once,
\* followed by the rollback.
C17_WritePathOrder ==
    /\ SuccessPath
    /\ (op = "save_options_data" /\ ret.raised)
          => IF args.fault = "commit" /\ ~FailsInTransaction(args.data, "none")
             THEN ret.calls = <<"connect", "cursor", "execute_values",
                                "commit", "rollback", "cur.close",
                                "conn.close">>
             ELSE "commit" \notin Range(ret.calls)

\* reached: a two-row batch was written and the write returned normally
C17_Witness ==
    /\ Appended
    /\ Len(args.data[1].rows) = 2
    /\ "rollback" \notin Range(ret.calls)
    /\ Len(store) = Len(ret.before) + 2

\* the rows of table for ticker that carry its latest timestamp
latest_batch(table, ticker) ==
    SelectSeq(ticker_rows(table, ticker),
        LAMBDA r : \A i \in 1..Len(table) :
            table[i].ticker = ticker
                => ~later(table[i].timestamp, r.timestamp))

\* C20: a read of the latest data of a ticker returns exactly the stored rows
\* of that ticker that carry its latest timestamp, ordered by ascending
\* strike; after two batches of different sizes it returns the whole later
\* batch and no row of the earlier one.
C20_LatestByTicker ==
    (op = "get_latest_options_data" /\ ~ret.raised)
        => LET rows == ret.value[1]
               batch_rows == latest_batch(store, args.ticker)
           IN  /\ Len(rows) = Len(batch_rows)
               /\ Range(rows) = Range(batch_rows)
               /\ \A i, j \in 1..Len(rows) :
                     i < j => rows[i].strike[1] <= rows[j].strike[1]

(***************************************************************************)
(* The fetch of a ticker with usable data, checked under SpecSelect.       *)
(***************************************************************************)
\* the last fetch had a closing price, an expiration of today or later and
\* a chain with a row whose strike and open interest are present
UsableAnswer ==
    /\ SelectionReached
    /\ args.yf.fails = "none"
    /\ \E d \in availableExpirations : d >= args.now.day
    /\ ~empty(args.yf.calls)
    /\ ~has_null(args.yf.calls, source_columns)

\* C19: a fetch for a ticker with a closing price, a usable expiration and a
\* chain of rows with strike and open interest returns a batch (not None)
\* with rows and with the columns ticker, strike, open_interest,
\* expiration_date, option_type, timestamp, stock_price: the normalised
\* batch passes the validation step of the fetch.
C19_UsableFetchReturnsBatch ==
    UsableAnswer
        => /\ ret.value /= None
           /\ ~empty(ret.value[1])
           /\ ret.value[1].columns = frame_columns

(***************************************************************************)
(* The timer function of function_app.py: one run over the ticker list.    *)
(* utils.fetch_0dte_options_data is a call that raises, returns None or    *)
(* returns a frame; its outcome for each ticker is an input of the run.    *)
(***************************************************************************)
outcome(raises, value) == [raises |-> raises, value |-> value]

\* what the fetch of ticker t can hand to the loop
FetchOutcomes(t) ==
    {outcome(TRUE, None),
     outcome(FALSE, None),
     outcome(FALSE, <<DataFrame(frame_columns, <<>>)>>),
     outcome(FALSE, <<DataFrame(frame_columns,
                                <<option_row(t, 100, "call")>>)>>)}

\* the store faults met in a run: the connection or the bulk insert fails
RunFaults == {"none", "connect", "execute_values"}

\* the fetch outcome and the store fault met for ticker t; a fault is
\* drawn only when there is a batch to write
TickerInputs(t) ==
    {[fetch |-> f, fault |-> x] :
        <<f, x>> \in {y \in FetchOutcomes(t) \X RunFaults :
                         y[2] = "none" \/ (~y[1].raises /\ ~no_data(y[1].value))}}

attempt(ticker, table, log, raised) ==
    [ticker |-> ticker, table |-> table, log |-> log, raised |-> raised]

\* the loop body without the try: an exception leaves the loop
process_ticker_unguarded(ticker, input, table, now) ==
    IF input.fetch.raises
    THEN attempt(ticker, table, "Error processing", TRUE)
    ELSE IF input.fetch.value /= None /\ ~empty(input.fetch.value[1])
    THEN LET result == save_options_data(input.fetch.value, ticker, table,
                                         now, input.fault)
         IN  IF result.raised
             THEN attempt(ticker, result.table, "Error processing", TRUE)
             ELSE attempt(ticker, result.table, "Successfully processed",
                          FALSE)
    ELSE attempt(ticker, table, "No 0DTE options data available", FALSE)

\* the loop body saving again, without the fault, after a save that raised
process_ticker_retry(ticker, input, table, now) ==
    IF input.fetch.raises
    THEN attempt(ticker, table, "Error processing", FALSE)
    ELSE IF input.fetch.value /= None /\ ~empty(input.fetch.value[1])
    THEN LET result == save_options_data(input.fetch.value, ticker, table,
                                         now, input.fault)
             again == save_options_data(input.fetch.value, ticker,
                                        result.table, now, "none")
         IN  IF result.raised
             THEN attempt(ticker, again.table, "Successfully processed",
                          FALSE)
             ELSE attempt(ticker, result.table, "Successfully processed",
                          FALSE)
    ELSE attempt(ticker, table, "No 0DTE options data available", FALSE)

\* the body of the loop for one ticker: fetch, save when there are rows,
\* and log any exception of either
process_ticker(ticker, input, table, now) ==
    IF input.fetch.raises
    THEN attempt(ticker, table, "Error processing", FALSE)
    ELSE IF input.fetch.value /= None /\ ~empty(input.fetch.value[1])
    THEN LET result == save_options_data(input.fetch.value, ticker, table,
                                         now, input.fault)
         IN  IF result.raised
             THEN attempt(ticker, result.table, "Error processing", FALSE)
             ELSE attempt(ticker, result.table, "Successfully processed",
                          FALSE)
    ELSE attempt(ticker, table, "No 0DTE options data available", FALSE)

\* for ticker in tickers: the attempts made, the last one first in the
\* result's table; an exception that leaves the body ends the loop
RECURSIVE for_tickers(_, _, _, _, _)
for_tickers(tickers, inputs, table, now, attempts) ==
    IF tickers = <<>> THEN attempts
    ELSE LET a == process_ticker(Head(tickers), Head(inputs), table, now)
         IN  IF a.raised THEN Append(attempts, a)
             ELSE for_tickers(Tail(tickers), Tail(inputs), a.table, now,
                              Append(attempts, a))

\* the timer function without the gate: the loop at any time
fetch_0dte_options_data_timer_ungated(wall, inputs, table, now) ==
    LET attempts == for_tickers(Tickers, inputs, table, now, <<>>)
        last == attempts[Len(attempts)]
    IN  [table |-> last.table,
         attempts |-> [i \in 1..Len(attempts) |->
                         [ticker |-> attempts[i].ticker,
                          log |-> attempts[i].log]],
         raised |-> last.raised, log |-> "ran"]

\* fetch_0dte_options_data_timer: the gate, then the loop
fetch_0dte_options_data_timer(wall, inputs, table, now) ==
    IF ~is_collection_time(wall)
    THEN [table |-> table, attempts |-> <<>>, raised |-> FALSE,
          log |-> "Not collection time, skipping data fetch"]
    ELSE LET attempts == for_tickers(Tickers, inputs, table, now, <<>>)
             last == attempts[Len(attempts)]
         IN  [table |-> last.table,
              attempts |-> [i \in 1..Len(attempts) |->
                              [ticker |-> attempts[i].ticker,
                               log |-> attempts[i].log]],
              raised |-> last.raised, log |-> "ran"]

\* the wall-clock times of the runs: Monday 11:30 and 11:36, Saturday 11:30
RunTimes ==
    {[weekday |-> 0, hour |-> 11, minute |-> 30],
     [weekday |-> 0, hour |-> 11, minute |-> 36],
     [weekday |-> 5, hour |-> 11, minute |-> 30]}

\* no fetch and no fault: the inputs drawn for a run that the gate skips
NoInputs ==
    [i \in 1..Len(Tickers) |-> [fetch |-> outcome(FALSE, None),
                                fault |-> "none"]]

\* a batch of one row for every ticker and no fault: what a run that the
\* gate skips would have fetched and written
ReadyInputs ==
    [i \in 1..Len(Tickers) |->
        [fetch |-> outcome(FALSE, <<DataFrame(frame_columns,
                                      <<option_row(Tickers[i], 100, "call")>>)>>),
         fault |-> "none"]]

\* one run of the timer function
TimerRun ==
    \E wall \in RunTimes :
    \E inputs \in IF is_collection_time(wall)
                  THEN {<<a, b>> : a \in TickerInputs(Tickers[1]),
                                   b \in TickerInputs(Tickers[2])}
                  ELSE {NoInputs, ReadyInputs} :
        LET run == fetch_0dte_options_data_timer(wall, inputs, store, clock)
        IN  /\ Len(run.table) <= MaxStore
            /\ op' = "fetch_0dte_options_data_timer"
            /\ args' = [now |-> wall, inputs |-> inputs]
            /\ ret' = [raised |-> run.raised, attempts |-> run.attempts,
                       log |-> run.log, before |-> store]
            /\ store' = run.table
            /\ UNCHANGED clock

\* the provider's answers met in a run whose fetch is fetch_options_data:
\* a chain of one call, a chain whose call has no open interest, an empty
\* chain and a provider whose price history fails
RunAnswers ==
    {Answer("none", TRUE, <<strftime(0)>>, one_row_side(100, Cell(10)),
            empty_side),
     Answer("none", TRUE, <<strftime(0)>>, one_row_side(100, NaN),
            empty_side),
     Answer("none", TRUE, <<strftime(0)>>, empty_side, empty_side),
     Answer("history", TRUE, <<>>, empty_side, empty_side)}

\* fetch_options_data_timer: the loop over the tickers, given what
\* utils.fetch_options_data returned for each; the fetch catches every
\* exception of its own and the store answers
fetch_options_data_timer(fetches, table, now) ==
    LET inputs == [i \in 1..Len(Tickers) |->
                     [fetch |-> outcome(FALSE, fetches[i].value),
                      fault |-> "none"]]
        attempts == for_tickers(Tickers, inputs, table, now, <<>>)
        last == attempts[Len(attempts)]
    IN  [table |-> last.table,
         attempts |-> [i \in 1..Len(attempts) |->
                         [ticker |-> attempts[i].ticker,
                          log |-> attempts[i].log]],
         fetches |-> [i \in 1..Len(Tickers) |-> fetches[i].log],
         raised |-> last.raised, log |-> "ran"]

\* one run of the timer function that fetches with fetch_options_data
PipelineRun ==
    \E a \in RunAnswers, b \in RunAnswers :
    \E fetches \in {<<fetch_options_data(Tickers[1], a, clock),
                       fetch_options_data(Tickers[2], b, clock)>>} :
        LET run == fetch_options_data_timer(fetches, store, clock)
        IN  /\ Len(run.table) <= MaxStore
            /\ op' = "fetch_options_data_timer"
            /\ args' = [answers |-> <<a, b>>, now |-> clock]
            /\ ret' = [raised |-> run.raised, attempts |-> run.attempts,
                       fetches |-> run.fetches, log |-> run.log,
                       before |-> store]
            /\ store' = run.table
            /\ UNCHANGED clock

NextRun == TimerRun \/ PipelineRun \/ Tick

SpecRun == Init /\ [][NextRun]_vars

\* the last operation was a run that the gate let through
Ran ==
    /\ op = "fetch_0dte_options_data_timer"
    /\ is_collection_time(args.now)

\* the i-th ticker of the run had a batch to write and no store fault
Writable(i) ==
    /\ ~args.inputs[i].fetch.raises
    /\ HasRows(args.inputs[i].fetch.value)
    /\ args.inputs[i].fault = "none"

\* C18: a run attempts every ticker of the list, in list order, and returns
\* without raising, whatever the fetch or the store write of any ticker did;
\* a ticker with a batch and no fault of its own has its rows written, even
\* when the ticker before it failed.
C18_PerTickerIsolation ==
    Ran => /\ ~ret.raised
           /\ Len(ret.attempts) = Len(Tickers)
           /\ \A i \in 1..Len(Tickers) :
                 /\ ret.attempts[i].ticker = Tickers[i]
                 /\ Writable(i)
                       => /\ ret.attempts[i].log = "Successfully processed"
                          /\ row_count(store, Tickers[i])
                                = row_count(ret.before, Tickers[i])
                                     + Len(args.inputs[i].fetch.value[1].rows)

\* reached: the store write of the first ticker raised and the second
\* ticker's batch was written in the same run
C18_Witness ==
    /\ Ran
    /\ HasRows(args.inputs[1].fetch.value)
    /\ args.inputs[1].fault = "execute_values"
    /\ ret.attempts[1].log = "Error processing"
    /\ Writable(2)
    /\ ret.attempts[2].log = "Successfully processed"
    /\ row_count(store, Tickers[2]) = row_count(ret.before, Tickers[2]) + 1

\* the rows a run added for the i-th ticker
added(i) == row_count(store, Tickers[i]) - row_count(ret.before, Tickers[i])

\* the i-th ticker of the run had a batch to write and the connection to
\* the store failed
ConnectionFailed(i) ==
    /\ ~args.inputs[i].fetch.raises
    /\ HasRows(args.inputs[i].fetch.value)
    /\ args.inputs[i].fault = "connect"

\* C26: a run in which the connection to the store fails for a ticker is
\* aborted there: the tickers after it in the list are not attempted and
\* none of their rows is written.
C26_ConnectionFailureEndsRun ==
    Ran => \A i \in 1..Len(Tickers) :
              ConnectionFailed(i)
                 => /\ Len(ret.attempts) <= i
                    /\ \A j \in (i + 1)..Len(Tickers) : added(j) = 0

\* C27: a run outside the collection window returns before the ticker list
\* is read: no ticker is attempted, nothing is raised and the store is the
\* store of before the run, whatever the tickers had to offer.
C27_ClosedGateNoWork ==
    (op = "fetch_0dte_options_data_timer" /\ ~is_collection_time(args.now))
        => /\ ret.attempts = <<>>
           /\ ~ret.raised
           /\ ret.log = "Not collection time, skipping data fetch"
           /\ store = ret.before

\* reached: a run on a Saturday with a batch ready for every ticker and a
\* store that holds rows
C27_Witness ==
    /\ op = "fetch_0dte_options_data_timer"
    /\ args.now.weekday = 5
    /\ args.inputs = ReadyInputs
    /\ store /= <<>>
    /\ ret.attempts = <<>>

\* C28: a run attempts each ticker of the list at most once and adds, for
\* each ticker, either no row or the rows of its one batch, once; it adds
\* no row for a ticker whose fetch raised or gave nothing, or whose write
\* failed: nothing is tried again.
C28_AtMostOnce ==
    Ran => /\ \A i, j \in 1..Len(ret.attempts) :
                 ret.attempts[i].ticker = ret.attempts[j].ticker => i = j
           /\ \A i \in 1..Len(Tickers) :
                 IF Writable(i)
                 THEN added(i) = Len(args.inputs[i].fetch.value[1].rows)
                 ELSE added(i) = 0

\* reached: in one run the write of the first ticker failed and added no
\* row, and the batch of the second was added once, to a store that held
\* rows of both from an earlier run
C28_Witness ==
    /\ Ran
    /\ ConnectionFailed(1)
    /\ added(1) = 0
    /\ Writable(2)
    /\ added(2) = 1
    /\ row_count(ret.before, Tickers[1]) > 0
    /\ row_count(ret.before, Tickers[2]) > 0

\* the fetch of the i-th ticker of the run came to its validation step
Validated(i) ==
    ret.fetches[i] \in {"ok", "Data validation failed"}

\* the batch the fetch of the i-th ticker handed to validate_options_data
validated_batch(i) ==
    LET yf == args.answers[i]
        sel == select_expiration(yf.options, args.now.day)
    IN  normalize(Tickers[i], options_list(yf.calls, yf.puts, sel.exp),
                  yf.close, args.now)

\* C29: in a run that fetches with fetch_options_data, rows of a ticker
\* are added to the store only when its batch came to the validation step
\* and validate_options_data returned true for it; a batch for which it
\* returned false is dropped whole: the fetch yields no data, no row of the
\* ticker is added, the ticker is not reported as processed, and the run
\* goes on to attempt every ticker of the list.
C29_ValidationGatesWrite ==
    op = "fetch_options_data_timer"
        => \A i \in 1..Len(Tickers) :
              /\ added(i) > 0
                    => /\ Validated(i)
                       /\ validate_options_data(validated_batch(i))
              /\ (Validated(i) /\ ~validate_options_data(validated_batch(i)))
                    => /\ ret.fetches[i] = "Data validation failed"
                       /\ added(i) = 0
                       /\ ret.attempts[i].log /= "Successfully processed"
                       /\ Len(ret.attempts) = Len(Tickers)
                       /\ ~ret.raised

\* reached: the batch of the first ticker failed validation and left the
\* store, which held rows, as it was, and the second ticker was attempted
C29_Witness ==
    /\ op = "fetch_options_data_timer"
    /\ Validated(1)
    /\ ~validate_options_data(validated_batch(1))
    /\ added(1) = 0
    /\ store /= <<>>
    /\ Len(ret.attempts) = 2
    /\ ret.attempts[2].ticker = Tickers[2]

(***************************************************************************)
(* Chain normalisation: the steps of utils.fetch_options_data from the     *)
(* chain it was handed to the batch it validates, applied once to a chain. *)
(***************************************************************************)
normalize_chain(ticker_symbol, calls, puts, exp, close, now) ==
    IF empty(calls) /\ empty(puts)
    THEN [value |-> None, log |-> "Option chain is empty"]
    ELSE LET frames == options_list(calls, puts, exp)
         IN  IF frames = <<>>
             THEN [value |-> None, log |-> "No valid options data found"]
             ELSE [value |-> <<normalize(ticker_symbol, frames, close, now)>>,
                   log |-> "ok"]

\* the column sets of a side: all the provider's columns, or one of the two
\* source columns missing
SideColumns ==
    {{"strike", "openInterest", "volume"}, {"strike", "volume"},
     {"openInterest", "volume"}}

\* a row of a side; the open interest tells the rows of one strike apart
side_row(cols, strike, oi) ==
    [c \in cols |-> Cell(CASE c = "strike" -> strike
                           [] c = "openInterest" -> oi
                           [] OTHER -> 1)]

\* the sides of at most n rows with strikes 100 and 105, in any order
Sides(n) ==
    {DataFrame(cols, [i \in 1..k |-> side_row(cols, l[i], 10 * i)]) :
        <<cols, k, l>> \in {x \in SideColumns \X (0..n) \X [1..n -> {100, 105}] :
                               \A i \in (x[2] + 1)..n : x[3][i] = 100}}

InitNormalize ==
    /\ store = <<>>
    /\ clock = datetime(0, 0, 0)
    /\ op = "none"
    /\ args \in [ticker_symbol : {Tickers[1]}, calls : Sides(MaxSide),
                 puts : Sides(MaxSide), exp : {strftime(1)}, close : {110},
                 now : {datetime(0, 1, 0)}]
    /\ ret = None

NormalizeChain ==
    /\ op = "none"
    /\ "calls" \in DOMAIN args
    /\ op' = "normalize_chain"
    /\ ret' = normalize_chain(args.ticker_symbol, args.calls, args.puts,
                              args.exp, args.close, args.now)
    /\ UNCHANGED <<args, store, clock>>

NextNormalize == NormalizeChain

SpecNormalize == InitNormalize /\ [][NextNormalize]_vars

\* a side has rows and carries both the strike and the open interest
usable(side) ==
    /\ Len(side.rows) > 0
    /\ "strike" \in side.columns
    /\ "openInterest" \in side.columns

\* the rows of a side that normalisation keeps
kept(side) == IF usable(side) THEN side.rows ELSE <<>>

\* row r of the batch is row q of a side, tagged with type
Tagged(r, q, type) ==
    /\ r["option_type"] = Cell(type)
    /\ r["strike"] = q["strike"]
    /\ r["open_interest"] = q["openInterest"]

\* C21: the batch holds the rows of the calls side that was kept, tagged
\* call and in their order, followed by the rows of the puts side that was
\* kept, tagged put and in their order, and no other row.
C21_CallsThenPuts ==
    (op = "normalize_chain" /\ ret.value /= None)
        => LET rows == ret.value[1].rows
               c == kept(args.calls)
               p == kept(args.puts)
           IN  /\ Len(rows) = Len(c) + Len(p)
               /\ \A i \in 1..Len(c) : Tagged(rows[i], c[i], "call")
               /\ \A j \in 1..Len(p) : Tagged(rows[Len(c) + j], p[j], "put")

\* reached: calls with strikes 105, 100 and puts with strikes 100, 105 gave
\* four rows in that order
C21_Witness ==
    /\ op = "normalize_chain"
    /\ usable(args.calls) /\ usable(args.puts)
    /\ ret.value /= None
    /\ [i \in 1..Len(ret.value[1].rows) |->
          <<ret.value[1].rows[i]["strike"][1],
            ret.value[1].rows[i]["option_type"][1]>>]
          = <<<<105, "call">>, <<100, "call">>, <<100, "put">>,
              <<105, "put">>>>

\* C22: when exactly one side is empty or lacks the strike or the open
\* interest, normalisation succeeds and the batch holds exactly the rows of
\* the other side.
C22_UnusableSideDropped ==
    (op = "normalize_chain" /\ usable(args.calls) /= usable(args.puts))
        => /\ ret.value /= None
           /\ LET rows == ret.value[1].rows
                  side == IF usable(args.calls) THEN args.calls ELSE args.puts
                  type == IF usable(args.calls) THEN "call" ELSE "put"
              IN  /\ Len(rows) = Len(side.rows)
                  /\ \A i \in 1..Len(rows) : Tagged(rows[i], side.rows[i], type)

\* reached: the calls had rows without open interest, the puts two usable
\* rows, and the batch is the two puts
C22_Witness ==
    /\ op = "normalize_chain"
    /\ Len(args.calls.rows) > 0
    /\ "openInterest" \notin args.calls.columns
    /\ Len(args.puts.rows) = 2
    /\ ret.value /= None
    /\ Len(ret.value[1].rows) = 2
    /\ \A i \in 1..2 : ret.value[1].rows[i]["option_type"] = Cell("put")

\* C23: normalisation ends without a batch, with the message of an empty
\* chain or of no valid options data, exactly when neither side is usable.
C23_EmptyChain ==
    op = "normalize_chain"
        => /\ (ret.value = None) <=> (~usable(args.calls) /\ ~usable(args.puts))
           /\ (ret.value = None)
                 <=> ret.log \in {"Option chain is empty",
                                  "No valid options data found"}

\* reached: the calls were empty, the puts had rows without strike, and no
\* batch came out
C23_Witness ==
    /\ op = "normalize_chain"
    /\ Len(args.calls.rows) = 0
    /\ Len(args.puts.rows) > 0
    /\ "strike" \notin args.puts.columns
    /\ ret.value = None
    /\ ret.log = "No valid options data found"

(***************************************************************************)
(* Specification SpecBatch: a chain is normalised into a batch, and        *)
(* batches are written to the store while time passes.                     *)
(***************************************************************************)
NextBatch == NormalizeChain \/ SaveOptionsData \/ Tick

SpecBatch == InitNormalize /\ [][NextBatch]_vars

\* the rows that the last write added to the store
written == SubSeq(store, Len(ret.before) + 1, Len(store))

\* C24: the rows of a normalised batch all carry one timestamp, and one
\* ticker, stock price and expiration date; the rows that one write adds to
\* the store likewise carry one timestamp, ticker, stock price and
\* expiration date.
C24_BatchSharesTimestamp ==
    /\ (op = "normalize_chain" /\ ret.value /= None)
          => \A i, j \in 1..Len(ret.value[1].rows) :
                \A c \in {"timestamp", "ticker", "stock_price",
                          "expiration_date"} :
                   ret.value[1].rows[i][c] = ret.value[1].rows[j][c]
    /\ Appended
          => \A i, j \in 1..Len(written) :
                /\ written[i].timestamp = written[j].timestamp
                /\ written[i].ticker = written[j].ticker
                /\ written[i].stock_price = written[j].stock_price
                /\ written[i].expiration_date = written[j].expiration_date

\* reached: a chain of two calls and two puts was normalised into four rows
\* that all carry the instant of the fetch
C24_Witness ==
    /\ op = "normalize_chain"
    /\ ret.value /= None
    /\ Len(ret.value[1].rows) = 4
    /\ \A i \in 1..4 :
          ret.value[1].rows[i]["timestamp"] = Cell(format_timestamp(args.now))

(***************************************************************************)
(* The store over time, checked under Spec.                                *)
(***************************************************************************)
\* C25: every step of a write or a read leaves the rows the store held in
\* place, unchanged and in their order, so that the row count of a ticker
\* never decreases; a step of a read leaves the whole store as it was.
C25_AppendOnly ==
    [][/\ Len(store') >= Len(store)
       /\ SubSeq(store', 1, Len(store)) = store
       /\ \A t \in Range(Tickers) : row_count(store', t) >= row_count(store, t)
       /\ (/\ op' \in {"get_latest_options_data", "get_options_data"}
           /\ <<op, args, ret>> /= <<op', args', ret'>>)
             => store' = store]_vars

\* reached: after two writes and a read of the latest rows the store still
\* begins with the rows of the first write
C25_Witness ==
    /\ op = "get_latest_options_data"
    /\ ~ret.raised
    /\ Len(store) >= 3
    /\ later(store[Len(store)].timestamp, store[1].timestamp)

(***************************************************************************)
(* The rows of the store against the rows of the batch that was written,   *)
(* checked under Spec.                                                     *)
(***************************************************************************)
\* C30: every row that save_options_data adds to the store carries the
\* timestamp its row of the batch carried when it was handed over, to the
\* second, and the ticker of that row.
C30_StoredAsValidated ==
    (Appended /\ args.data[1].columns = frame_columns)
        => /\ Len(written) = Len(args.data[1].rows)
           /\ \A i \in 1..Len(written) :
                 /\ format_timestamp(written[i].timestamp)
                       = args.data[1].rows[i]["timestamp"][1]
                 /\ written[i].ticker = args.data[1].rows[i]["ticker"][1]

=============================================================================
